---- MODULE Spec2Model ----
(***************************************************************************)
(* Model of tefla/core/special_fn.py: the custom-gradient wrapper          *)
(* (fn_with_custom_grad / _fn_with_custom_grad) and the layer functions    *)
(* built on the dilated convolution (format_input_left_padding, conv2d_v2, *)
(* conv2d_gru, conv2d_lstm).                                               *)
(*                                                                         *)
(* Tensors are symbolic values (strings).  A Python sequence is a TLA+     *)
(* sequence; a value returned by a Python function is a record             *)
(* [kind, vals] where kind says whether the caller sees a single tensor,   *)
(* a list or a tuple and vals holds the tensors in order.                  *)
(*                                                                         *)
(* Specifications: Spec is one decorated function, its calls in one        *)
(* computation graph and the backward passes through them; SpecConv is the *)
(* construction of the convolution layers, SpecConv2d that of conv2d_v2    *)
(* alone.                                                                  *)
(***************************************************************************)
EXTENDS Integers, Sequences, FiniteSets, TLC

VARIABLES wrapped, graph, last, res

vars == <<wrapped, graph, last, res>>

(***************************************************************************)
(* Bounds                                                                  *)
(***************************************************************************)
MaxIn == 2          \* most inputs of a wrapped call
MaxVars == 1        \* most parameters created inside fn
MaxOut == 2         \* most tensors returned by fn
MaxCalls == 2       \* most wrapped calls with a grad_fn in one graph
RandMax == 2        \* stands for the 10**9 of random.randint(1, 10**9)
MaxGradLen == 3     \* longest list grad_fn returns

(***************************************************************************)
(* Symbolic tensors                                                        *)
(***************************************************************************)
Digit(i) == IF i = 1 THEN "1" ELSE IF i = 2 THEN "2" ELSE IF i = 3 THEN "3"
            ELSE IF i = 4 THEN "4" ELSE "5"

Named(p, n) == [i \in 1..n |-> p \o Digit(i)]

None == "None"

Min(a, b) == IF a < b THEN a ELSE b

\* Python slice s[lo:hi] with 0 <= lo, 0 <= hi (0-based, hi exclusive)
Slice(s, lo, hi) == SubSeq(s, Min(lo, Len(s)) + 1, Min(hi, Len(s)))

\* Python slice s[lo:]
SliceFrom(s, lo) == SubSeq(s, Min(lo, Len(s)) + 1, Len(s))

\* [None] * n
NoneList(n) == [i \in 1..n |-> None]

(***************************************************************************)
(* What fn returns for the inputs: a single tensor, or a list or a tuple   *)
(* of one or more tensors.  fn may return one of its inputs (identity).    *)
(***************************************************************************)
FnOutputs(inputs) ==
    {Named("y", m) : m \in 1..MaxOut}
        \cup {<<inputs[1]>> : k \in {1} \cap DOMAIN inputs}

FnReturns(inputs) ==
    {[kind |-> "tensor", vals |-> o] : o \in {v \in FnOutputs(inputs) : Len(v) = 1}}
        \cup {[kind |-> k, vals |-> o] : k \in {"list", "tuple"}, o \in FnOutputs(inputs)}

NoValue == [kind |-> "none", vals |-> <<>>]

(***************************************************************************)
(* fn_with_custom_grad, lines 7-32: the decorated function.  It holds      *)
(* grad_fn (or None) and fn; fn is known by the number of inputs it takes, *)
(* the number of parameters it creates in its scope and what it returns,   *)
(* grad_fn by the lengths of the two lists it returns (any lengths: the    *)
(* caller writes grad_fn).                                                 *)
(***************************************************************************)
GradFn(a, b) == [n_grad_inputs |-> a, n_grad_vars |-> b]

Wrapped(g, grad_fn, n, k, fnret) ==
    [has_grad_fn |-> g, grad_fn |-> grad_fn, n_inputs |-> n, n_vars |-> k,
     fnret |-> fnret]

NoWrapped == Wrapped(FALSE, GradFn(0, 0), 0, 0, NoValue)

(***************************************************************************)
(* _fn_with_custom_grad, lines 61-63: a single tensor becomes a            *)
(* one-element list, a tuple or list becomes a list.                       *)
(***************************************************************************)
NormalizeOutputs(fnret) == fnret.vals

(***************************************************************************)
(* identity, lines 92-94: the arguments after the inputs and the           *)
(* parameters, each through tf.identity (value unchanged).                 *)
(***************************************************************************)
\* variant: the slice starts after the inputs only
identityDropsVars(args, n_inputs, n_vars) == SliceFrom(args, n_inputs)

identity(args, n_inputs, n_vars) == SliceFrom(args, n_inputs + n_vars)

(***************************************************************************)
(* Calling the Defun, line 96: the op gets the call's arguments as inputs  *)
(* and the function body's results as outputs; the call yields the single  *)
(* output when there is one and the tuple of outputs otherwise.            *)
(***************************************************************************)
\* variant: the parameters are not passed to the Defun
DefunArgsNoVars(inputs, train_vars, outputs) == inputs \o outputs

DefunArgs(inputs, train_vars, outputs) == inputs \o train_vars \o outputs

DefunCall(outs) ==
    IF Len(outs) = 1 THEN [kind |-> "tensor", vals |-> outs]
    ELSE [kind |-> "tuple", vals |-> outs]

(***************************************************************************)
(* custom_grad_fn, lines 69-81.  op is the Defun op of the invocation      *)
(* (its closure holds len(inputs), len(train_vars) and outputs), dys the   *)
(* output gradients, gi and gv what grad_fn returns.                       *)
(***************************************************************************)
\* variant: grad_vars before grad_inputs
custom_grad_fn_swapped(op, dys, gi, gv) ==
    LET fn_inputs == Slice(op.inputs, 0, op.n_inputs)
        fn_vars == Slice(op.inputs, op.n_inputs, op.n_inputs + op.n_vars)
        fn_outputs == SliceFrom(op.inputs, op.n_inputs + op.n_vars)
    IN  IF Len(fn_outputs) # Len(op.outputs) \/ Len(fn_outputs) # Len(dys)
        THEN [status |-> "AssertionError", grads |-> <<>>,
              fn_inputs |-> fn_inputs, fn_vars |-> fn_vars, fn_outputs |-> fn_outputs]
        ELSE [status |-> "returned",
              grads |-> gv \o gi \o NoneList(Len(fn_outputs)),
              fn_inputs |-> fn_inputs, fn_vars |-> fn_vars, fn_outputs |-> fn_outputs]

\* variant: a third assertion on the lengths of grad_inputs and grad_vars
custom_grad_fn_checked(op, dys, gi, gv) ==
    LET fn_inputs == Slice(op.inputs, 0, op.n_inputs)
        fn_vars == Slice(op.inputs, op.n_inputs, op.n_inputs + op.n_vars)
        fn_outputs == SliceFrom(op.inputs, op.n_inputs + op.n_vars)
    IN  IF Len(fn_outputs) # Len(op.outputs) \/ Len(fn_outputs) # Len(dys)
           \/ Len(gi) # Len(fn_inputs) \/ Len(gv) # Len(fn_vars)
        THEN [status |-> "AssertionError", grads |-> <<>>,
              fn_inputs |-> fn_inputs, fn_vars |-> fn_vars, fn_outputs |-> fn_outputs]
        ELSE [status |-> "returned",
              grads |-> gi \o gv \o NoneList(Len(fn_outputs)),
              fn_inputs |-> fn_inputs, fn_vars |-> fn_vars, fn_outputs |-> fn_outputs]

custom_grad_fn(op, dys, gi, gv) ==
    LET fn_inputs == Slice(op.inputs, 0, op.n_inputs)
        fn_vars == Slice(op.inputs, op.n_inputs, op.n_inputs + op.n_vars)
        fn_outputs == SliceFrom(op.inputs, op.n_inputs + op.n_vars)
    IN  IF Len(fn_outputs) # Len(op.outputs) \/ Len(fn_outputs) # Len(dys)
        THEN [status |-> "AssertionError", grads |-> <<>>,
              fn_inputs |-> fn_inputs, fn_vars |-> fn_vars, fn_outputs |-> fn_outputs]
        ELSE [status |-> "returned",
              grads |-> gi \o gv \o NoneList(Len(fn_outputs)),
              fn_inputs |-> fn_inputs, fn_vars |-> fn_vars, fn_outputs |-> fn_outputs]

(***************************************************************************)
(* Convolution layers                                                      *)
(*                                                                         *)
(* A tensor is known here by its shape, a sequence of dimensions           *)
(* (<<batch, height, width, channels>> for rank 4, <<>> for a shape of     *)
(* unknown rank or a scalar), and by whether its width is statically       *)
(* known.  Keyword arguments are a function from the keywords given to     *)
(* their values: filter_size is <<>> for None, <<f>> for the int f and     *)
(* <<f0, f1>> for a pair.                                                  *)
(***************************************************************************)
MaxDim == 3         \* largest height and width
MaxChan == 2        \* largest channel count
MaxFilter == 3      \* largest filter dimension
MaxDilation == 2    \* largest dilation

Entry(k, opt) == [x \in {k : v \in opt} |-> CHOOSE v \in opt : TRUE]

Opt(S) == {{}} \cup {{v} : v \in S}

Get(kw, k, default) == IF k \in DOMAIN kw THEN kw[k] ELSE default

Put(kw, k, v) == [x \in DOMAIN kw \cup {k} |-> IF x = k THEN v ELSE kw[x]]

\* None, an int, or a pair of two different sizes (a pair of equal sizes
\* behaves as the int)
FilterSizes ==
    {<<>>} \cup {<<f>> : f \in 1..MaxFilter}
           \cup {p \in (1..MaxFilter) \X (1..MaxFilter) : p[1] # p[2]}

Paddings == {"SAME", "VALID", "LEFT"}

\* the same rate on both axes, or rate 1 in height and another in width
DilationRates ==
    {<<a, a>> : a \in 1..MaxDilation} \cup {<<1, b>> : b \in 2..MaxDilation}

KwargsSet ==
    {Entry("filter_size", f) @@ Entry("padding", p) @@ Entry("dilation", d)
        @@ Entry("dilation_rate", r) :
        f \in Opt(FilterSizes), p \in Opt(Paddings),
        d \in Opt(1..MaxDilation), r \in Opt(DilationRates)}

\* the batch size takes part in no computation of the layers
Rank4Shapes ==
    {<<1, h, w, c>> : h \in 1..MaxDim, w \in 1..MaxDim, c \in 1..MaxChan}

Shapes == Rank4Shapes \cup {<<>>, <<1, 1, 1>>, <<1, 1, 1, 1, 1>>}

\* isinstance(filter_size, int): [filter_size, filter_size]
FilterPair(fs) == IF Len(fs) = 1 THEN <<fs[1], fs[1]>> ELSE fs

NoFormat == [status |-> "none", inputs |-> <<>>, kwargs |-> <<>>,
             pad |-> <<>>]

(***************************************************************************)
(* format_input_left_padding, lines 100-123                                *)
(***************************************************************************)
FormatAbort(e) == [NoFormat EXCEPT !.status = e]

\* variant: padding of filter_size // 2 instead of 2 * (filter_size // 2)
format_input_left_padding_halfpad(shape, wknown, kwargs) ==
    IF Len(shape) # 4 THEN FormatAbort("ValueError")
    ELSE IF "filter_size" \notin DOMAIN kwargs THEN FormatAbort("KeyError")
    ELSE IF kwargs["filter_size"] = <<>> THEN FormatAbort("AssertionError")
    ELSE
      LET filter_size == FilterPair(kwargs["filter_size"])
          dilation_rate == Get(kwargs, "dilation_rate", <<1, 1>>)
      IN  IF ~(filter_size[1] % 2 = 1 /\ filter_size[2] % 2 = 1)
          THEN FormatAbort("AssertionError")
          ELSE
            LET height_padding == (filter_size[1] \div 2) * dilation_rate[1]
                cond_padding == IF shape[3] = 1 THEN 0
                                ELSE (filter_size[2] \div 2) * dilation_rate[2]
                width_padding == IF wknown /\ shape[3] = 1 THEN 0
                                 ELSE cond_padding
            IN  [status |-> "ok",
                 inputs |-> <<shape[1], shape[2] + height_padding,
                              shape[3] + width_padding, shape[4]>>,
                 kwargs |-> Put(kwargs, "padding", "VALID"),
                 pad |-> <<height_padding, width_padding>>]

\* variant: only filter_size[0] is asserted odd
format_input_left_padding_evenok(shape, wknown, kwargs) ==
    IF Len(shape) # 4 THEN FormatAbort("ValueError")
    ELSE IF "filter_size" \notin DOMAIN kwargs THEN FormatAbort("KeyError")
    ELSE IF kwargs["filter_size"] = <<>> THEN FormatAbort("AssertionError")
    ELSE
      LET filter_size == FilterPair(kwargs["filter_size"])
          dilation_rate == Get(kwargs, "dilation_rate", <<1, 1>>)
      IN  IF ~(filter_size[1] % 2 = 1)
          THEN FormatAbort("AssertionError")
          ELSE
            LET height_padding == 2 * (filter_size[1] \div 2) * dilation_rate[1]
                cond_padding == IF shape[3] = 1 THEN 0
                                ELSE 2 * (filter_size[2] \div 2) * dilation_rate[2]
                width_padding == IF wknown /\ shape[3] = 1 THEN 0
                                 ELSE cond_padding
            IN  [status |-> "ok",
                 inputs |-> <<shape[1], shape[2] + height_padding,
                              shape[3] + width_padding, shape[4]>>,
                 kwargs |-> Put(kwargs, "padding", "VALID"),
                 pad |-> <<height_padding, width_padding>>]

format_input_left_padding(shape, wknown, kwargs) ==
    IF Len(shape) # 4 THEN FormatAbort("ValueError")
    ELSE IF "filter_size" \notin DOMAIN kwargs THEN FormatAbort("KeyError")
    ELSE IF kwargs["filter_size"] = <<>> THEN FormatAbort("AssertionError")
    ELSE
      LET filter_size == FilterPair(kwargs["filter_size"])
          dilation_rate == Get(kwargs, "dilation_rate", <<1, 1>>)
      IN  IF ~(filter_size[1] % 2 = 1 /\ filter_size[2] % 2 = 1)
          THEN FormatAbort("AssertionError")
          ELSE
            LET height_padding == 2 * (filter_size[1] \div 2) * dilation_rate[1]
                cond_padding == IF shape[3] = 1 THEN 0
                                ELSE 2 * (filter_size[2] \div 2) * dilation_rate[2]
                width_padding == IF wknown /\ shape[3] = 1 THEN 0
                                 ELSE cond_padding
            IN  [status |-> "ok",
                 inputs |-> <<shape[1], shape[2] + height_padding,
                              shape[3] + width_padding, shape[4]>>,
                 kwargs |-> Put(kwargs, "padding", "VALID"),
                 pad |-> <<height_padding, width_padding>>]

(***************************************************************************)
(* dilated_conv2d of tefla.core.layers (imported at line 4, not part of    *)
(* this file): the shape of a stride-1 dilated convolution.  SAME keeps    *)
(* height and width, VALID takes (filter - 1) * dilation off each; the     *)
(* channel count becomes n_output_channels.  hknown and wknown say whether  *)
(* height and width are statically known: a dimension below 1 is a         *)
(* ValueError when the graph is built if it is known, and an error when    *)
(* the graph runs (run = "InvalidArgument") if it is not.                  *)
(***************************************************************************)
dilated_conv2d(shape, hknown, wknown, n_output_channels, kwargs) ==
    LET fs == Get(kwargs, "filter_size", <<3>>)
        padding == Get(kwargs, "padding", "SAME")
        d == Get(kwargs, "dilation", 1)
    IN  IF Len(shape) # 4 THEN [status |-> "ValueError", run |-> "none", out |-> <<>>]
        ELSE IF fs = <<>> THEN [status |-> "TypeError", run |-> "none", out |-> <<>>]
        ELSE
          LET f == FilterPair(fs)
              h == IF padding = "SAME" THEN shape[2] ELSE shape[2] - (f[1] - 1) * d
              w == IF padding = "SAME" THEN shape[3] ELSE shape[3] - (f[2] - 1) * d
          IN  IF (hknown /\ h < 1) \/ (wknown /\ w < 1)
              THEN [status |-> "ValueError", run |-> "none", out |-> <<>>]
              ELSE IF h < 1 \/ w < 1
              THEN [status |-> "ok", run |-> "InvalidArgument", out |-> <<>>]
              ELSE [status |-> "ok", run |-> "ok",
                    out |-> <<shape[1], h, w, n_output_channels>>]

(***************************************************************************)
(* conv2d_v2, lines 188-190                                                *)
(***************************************************************************)
conv2d_v2(shape, wknown, n_output_channels, kwargs) ==
    IF "padding" \in DOMAIN kwargs /\ kwargs["padding"] = "LEFT"
    THEN LET f == format_input_left_padding(shape, wknown, kwargs)
         IN  IF f.status # "ok"
             THEN [status |-> f.status, run |-> "none", left |-> TRUE,
                   pad |-> <<>>, conv_called |-> FALSE, conv_in |-> <<>>,
                   conv_kwargs |-> <<>>, out |-> <<>>]
             ELSE LET c == dilated_conv2d(f.inputs, FALSE, FALSE,
                                          n_output_channels, f.kwargs)
                  IN  [status |-> c.status, run |-> c.run, left |-> TRUE,
                       pad |-> f.pad, conv_called |-> TRUE,
                       conv_in |-> f.inputs, conv_kwargs |-> f.kwargs,
                       out |-> c.out]
    ELSE LET c == dilated_conv2d(shape, TRUE, wknown, n_output_channels, kwargs)
         IN  [status |-> c.status, run |-> c.run, left |-> FALSE,
              pad |-> <<>>, conv_called |-> TRUE, conv_in |-> shape,
              conv_kwargs |-> kwargs, out |-> c.out]

(***************************************************************************)
(* Shape of an elementwise product or sum of two rank-4 tensors            *)
(* (broadcasting); <<>> when the shapes are incompatible.                  *)
(***************************************************************************)
Compatible(a, b) == a = b \/ a = 1 \/ b = 1

Broadcast(s, t) ==
    IF Len(s) # 4 \/ Len(t) # 4 THEN <<>>
    ELSE IF \E i \in 1..4 : ~Compatible(s[i], t[i]) THEN <<>>
    ELSE [i \in 1..4 |-> IF s[i] = 1 THEN t[i] ELSE s[i]]

Failed(c, status, run) ==
    [c EXCEPT !.status = status, !.run = run, !.out = <<>>]

(***************************************************************************)
(* conv2d_gru, lines 193 and 234-242.  kw holds the keywords the caller    *)
(* gave; filter_size, padding and dilation have the defaults of the        *)
(* signature, any other keyword is passed on through **kwargs.             *)
(***************************************************************************)
conv2d_fn_kwargs(kw, name, bias_start) ==
    [x \in {"filter_size", "padding", "b_init", "dilation", "name"} |->
        IF x = "filter_size" THEN Get(kw, "filter_size", <<3>>)
        ELSE IF x = "padding" THEN Get(kw, "padding", "SAME")
        ELSE IF x = "b_init" THEN bias_start
        ELSE IF x = "dilation" THEN Get(kw, "dilation", 1)
        ELSE name]
        @@ Entry("dilation_rate",
                 {kw[k] : k \in {"dilation_rate"} \cap DOMAIN kw})

conv2d_gru(shape, wknown, n_output_channels, kw) ==
    LET reset == conv2d_v2(shape, wknown, n_output_channels,
                           conv2d_fn_kwargs(kw, "reset", "1.0"))
        gate == conv2d_v2(shape, wknown, n_output_channels,
                          conv2d_fn_kwargs(kw, "gate", "1.0"))
        reset_inputs == Broadcast(reset.out, shape)
        candidate == conv2d_v2(reset_inputs, wknown /\ ~reset.left,
                               n_output_channels,
                               conv2d_fn_kwargs(kw, "candidate", "0.0"))
        gate_inputs == Broadcast(gate.out, shape)
        gate_candidate == Broadcast(gate.out, candidate.out)
        out == Broadcast(gate_inputs, gate_candidate)
    IN  IF reset.status # "ok" \/ reset.run # "ok" THEN reset
        ELSE IF gate.status # "ok" \/ gate.run # "ok" THEN gate
        ELSE IF reset_inputs = <<>> THEN Failed(reset, "ValueError", "none")
        ELSE IF candidate.status # "ok" \/ candidate.run # "ok"
             THEN Failed(reset, candidate.status, candidate.run)
        ELSE IF gate_inputs = <<>> \/ gate_candidate = <<>> \/ out = <<>>
             THEN Failed(reset, "ValueError", "none")
        ELSE [reset EXCEPT !.out = out]

(***************************************************************************)
(* conv2d_lstm, lines 245 and 286-291: the convolution of the four gates,  *)
(* then line 289 reads the name n_ouput_channels, which is bound nowhere.  *)
(***************************************************************************)
conv2d_lstm_kwargs(kw) ==
    [x \in {"filter_size", "padding", "dilation", "name"} |->
        IF x = "filter_size" THEN Get(kw, "filter_size", <<3>>)
        ELSE IF x = "padding" THEN Get(kw, "padding", "SAME")
        ELSE IF x = "dilation" THEN Get(kw, "dilation", 1)
        ELSE Get(kw, "name", "conv2d_gru")]
        @@ Entry("dilation_rate",
                 {kw[k] : k \in {"dilation_rate"} \cap DOMAIN kw})

conv2d_lstm(shape, wknown, n_output_channels, kw) ==
    LET gates == conv2d_v2(shape, wknown, 4 * n_output_channels,
                           conv2d_lstm_kwargs(kw))
    IN  IF gates.status # "ok" THEN gates
        ELSE Failed(gates, "NameError", "none")

(***************************************************************************)
(* State of the layer construction                                         *)
(*   res : the call under way (function, input shape, output channels and  *)
(*         keywords) and, once it is done, its outcome                     *)
(***************************************************************************)
NoOutcome == [status |-> "none", run |-> "none", left |-> FALSE, pad |-> <<>>,
              conv_called |-> FALSE, conv_in |-> <<>>, conv_kwargs |-> <<>>,
              out |-> <<>>]

Request(fn, shape, wknown, n, kw) ==
    [fn |-> fn, stage |-> "request", shape |-> shape, wknown |-> wknown,
     n_output_channels |-> n, kwargs |-> kw, outcome |-> NoOutcome]

LayerFns == {"conv2d_v2", "conv2d_gru", "conv2d_lstm"}

(***************************************************************************)
(* State of the computation graph                                          *)
(*   graph : the names of the Defun functions registered in the graph so   *)
(*           far, one per wrapped call with a grad_fn, in order of creation*)
(*   last  : the most recent wrapped call, the Defun op it created and the *)
(*           most recent backward pass through that op (the ops of one     *)
(*           graph do not share state, so one op is followed in detail)    *)
(***************************************************************************)
NoOp == [name |-> 0, inputs |-> <<>>, n_inputs |-> 0, n_vars |-> 0,
         outputs |-> <<>>, results |-> <<>>]

Idle == [what |-> "idle", has_grad_fn |-> FALSE, inputs |-> <<>>,
         train_vars |-> <<>>, fnret |-> NoValue, ret |-> NoValue,
         op |-> NoOp, dys |-> <<>>, gi |-> <<>>, gv |-> <<>>,
         status |-> "none", grads |-> <<>>,
         fn_inputs |-> <<>>, fn_vars |-> <<>>, fn_outputs |-> <<>>]

NoRes == Request("none", <<>>, FALSE, 0, <<>>)

Init ==
    /\ \E n \in 0..MaxIn, k \in 0..MaxVars :
         \E fnret \in FnReturns(Named("x", n)) :
           \/ wrapped = Wrapped(FALSE, GradFn(0, 0), n, k, fnret)
           \/ \E a \in 0..MaxGradLen, b \in 0..MaxGradLen :
                wrapped = Wrapped(TRUE, GradFn(a, b), n, k, fnret)
    /\ graph = <<>>
    /\ last = Idle
    /\ res = NoRes

(***************************************************************************)
(* _fn_with_custom_grad with grad_fn None, lines 50-59                     *)
(***************************************************************************)
CallWithoutGradFn ==
    /\ ~wrapped.has_grad_fn
    /\ last' = [Idle EXCEPT !.what = "call", !.has_grad_fn = FALSE,
                            !.inputs = Named("x", wrapped.n_inputs),
                            !.train_vars = Named("v", wrapped.n_vars),
                            !.fnret = wrapped.fnret, !.ret = wrapped.fnret,
                            !.status = "returned"]
    /\ UNCHANGED <<wrapped, graph, res>>

(***************************************************************************)
(* _fn_with_custom_grad with a grad_fn, lines 50-57 and 60-97              *)
(***************************************************************************)
CallWithGradFn ==
    /\ wrapped.has_grad_fn
    /\ Len(graph) < MaxCalls
    /\ \E rnd \in 1..RandMax :
        LET inputs == Named("x", wrapped.n_inputs)
            train_vars == Named("v", wrapped.n_vars)
            outputs == NormalizeOutputs(wrapped.fnret)
            args == DefunArgs(inputs, train_vars, outputs)
            outs == identity(args, Len(inputs), Len(train_vars))
            op == [name |-> rnd, inputs |-> args,
                   n_inputs |-> Len(inputs), n_vars |-> Len(train_vars),
                   outputs |-> outputs, results |-> outs]
        IN  /\ graph' = Append(graph, op.name)
            /\ last' = [Idle EXCEPT !.what = "call", !.has_grad_fn = TRUE,
                                    !.inputs = inputs, !.train_vars = train_vars,
                                    !.fnret = wrapped.fnret,
                                    !.ret = DefunCall(outs),
                                    !.op = op, !.status = "returned"]
            /\ UNCHANGED <<wrapped, res>>

(***************************************************************************)
(* Backward pass through the op of the last call: the engine hands         *)
(* custom_grad_fn the op and one output gradient per op output, and        *)
(* grad_fn returns its two lists.                                          *)
(***************************************************************************)
Backward ==
    /\ last.has_grad_fn
    /\ LET op == last.op
           dys == Named("dy", Len(op.results))
           gi == Named("gi", wrapped.grad_fn.n_grad_inputs)
           gv == Named("gv", wrapped.grad_fn.n_grad_vars)
           r == custom_grad_fn(op, dys, gi, gv)
       IN  last' = [last EXCEPT !.what = "backward",
                                !.dys = dys, !.gi = gi, !.gv = gv,
                                !.status = r.status, !.grads = r.grads,
                                !.fn_inputs = r.fn_inputs,
                                !.fn_vars = r.fn_vars,
                                !.fn_outputs = r.fn_outputs]
    /\ UNCHANGED <<wrapped, graph, res>>

Next == CallWithoutGradFn \/ CallWithGradFn \/ Backward

Spec == Init /\ [][Next]_vars

(***************************************************************************)
(* The layer functions, each applied to the call under way                 *)
(***************************************************************************)
InitConvOf(fns) ==
    /\ wrapped = NoWrapped
    /\ graph = <<>>
    /\ last = Idle
    /\ \E fn \in fns, shape \in Shapes, wknown \in BOOLEAN,
          n \in 1..MaxChan, kw \in KwargsSet :
         res = Request(fn, shape, wknown, n, kw)

InitConv == InitConvOf(LayerFns)

InitConv2d == InitConvOf({"conv2d_v2"})

Conv2dV2 ==
    /\ res.fn = "conv2d_v2"
    /\ res.stage = "request"
    /\ res' = [res EXCEPT !.stage = "done",
                          !.outcome = conv2d_v2(res.shape, res.wknown,
                                                res.n_output_channels,
                                                res.kwargs)]
    /\ UNCHANGED <<wrapped, graph, last>>

Conv2dGru ==
    /\ res.fn = "conv2d_gru"
    /\ res.stage = "request"
    /\ res' = [res EXCEPT !.stage = "done",
                          !.outcome = conv2d_gru(res.shape, res.wknown,
                                                 res.n_output_channels,
                                                 res.kwargs)]
    /\ UNCHANGED <<wrapped, graph, last>>

Conv2dLstm ==
    /\ res.fn = "conv2d_lstm"
    /\ res.stage = "request"
    /\ res' = [res EXCEPT !.stage = "done",
                          !.outcome = conv2d_lstm(res.shape, res.wknown,
                                                  res.n_output_channels,
                                                  res.kwargs)]
    /\ UNCHANGED <<wrapped, graph, last>>

NextConv == Conv2dV2 \/ Conv2dGru \/ Conv2dLstm

SpecConv == InitConv /\ [][NextConv]_vars

NextConv2d == Conv2dV2

SpecConv2d == InitConv2d /\ [][NextConv2d]_vars

(***************************************************************************)
(* Properties of the custom-gradient wrapper                               *)
(***************************************************************************)
BackwardDone == last.what = "backward"

GradFnConforms ==
    /\ Len(last.gi) = Len(last.inputs)
    /\ Len(last.gv) = Len(last.train_vars)

\* C1: after a backward pass the tuple handed to the engine is grad_inputs,
\* then grad_vars, then one None per forward output; when grad_fn returns one
\* gradient per input and per parameter, the entry at the position of each
\* original input and of each parameter among the op's inputs is the value
\* grad_fn returned for it, and the entry at the position of each forward
\* output is None.
C1_GradientIsGradFnResult ==
    (BackwardDone /\ last.status = "returned") =>
        LET n == Len(last.inputs)
            k == Len(last.train_vars)
            m == Len(last.op.outputs)
            g == last.grads
        IN  /\ Len(g) >= m
            /\ \A j \in 1..m : g[Len(g) - m + j] = None
            /\ \A i \in 1..Min(Len(last.gi), Len(g)) : g[i] = last.gi[i]
            /\ GradFnConforms =>
                 /\ Len(g) = Len(last.op.inputs)
                 /\ \A i \in 1..n :
                      last.op.inputs[i] = last.inputs[i] /\ g[i] = last.gi[i]
                 /\ \A i \in 1..k :
                      /\ last.op.inputs[n + i] = last.train_vars[i]
                      /\ g[n + i] = last.gv[i]
                 /\ \A j \in 1..m :
                      /\ last.op.inputs[n + k + j] = last.op.outputs[j]
                      /\ g[n + k + j] = None

C1_Witness ==
    /\ BackwardDone
    /\ last.status = "returned"
    /\ GradFnConforms
    /\ Len(last.inputs) = 1
    /\ Len(last.train_vars) = 1
    /\ last.fnret.vals = <<last.inputs[1]>>
    /\ last.grads = <<"gi1", "gv1", None>>

\* C2: the values a wrapped call returns are the values fn returned, in
\* number and in order; without grad_fn the result of fn is returned as it
\* is and the graph gets no new function; with grad_fn the op's inputs are
\* inputs + parameters + outputs and its results are its last len(outputs)
\* inputs, unchanged and in order.
C2_ForwardState ==
    last.what = "call" =>
        /\ last.ret.vals = last.fnret.vals
        /\ ~last.has_grad_fn => (last.ret = last.fnret /\ last.op = NoOp)
        /\ last.has_grad_fn =>
             /\ last.op.inputs =
                    last.inputs \o last.train_vars \o last.fnret.vals
             /\ last.op.results =
                    SubSeq(last.op.inputs,
                           Len(last.op.inputs) - Len(last.fnret.vals) + 1,
                           Len(last.op.inputs))
             /\ last.ret.vals = last.op.results

C2_ForwardStep ==
    /\ (last'.what = "call" /\ ~last'.has_grad_fn) => graph' = graph
    /\ (last'.what = "call" /\ last'.has_grad_fn /\ last' # last) =>
           (Len(graph') = Len(graph) + 1 /\ graph'[Len(graph')] = last'.op.name)

C2_ForwardUnchanged == [](C2_ForwardState) /\ [][C2_ForwardStep]_vars

C2_Witness ==
    /\ last.what = "call"
    /\ last.has_grad_fn
    /\ Len(last.inputs) = 2
    /\ Len(last.train_vars) = 1
    /\ last.ret.vals = <<"y1", "y2">>

\* C3: the kind of value the caller gets from a wrapped call (single tensor,
\* list or tuple) and its length are those of what fn returned.
C3_ReturnTypeMatches ==
    last.what = "call" =>
        /\ last.ret.kind = last.fnret.kind
        /\ Len(last.ret.vals) = Len(last.fnret.vals)

\* C4 as stated: whenever grad_fn returns a list of the wrong length,
\* custom_grad_fn ends in an error and returns no gradient tuple.
WrongLength ==
    \/ Len(last.gi) # Len(last.inputs)
    \/ Len(last.gv) # Len(last.train_vars)

C4_RaisesOnWrongLength ==
    (BackwardDone /\ WrongLength) => last.status # "returned"

\* C4 amended: custom_grad_fn does not check the lengths of the lists grad_fn
\* returns; whatever their lengths it returns the tuple
\* grad_inputs + grad_vars + [None] * len(outputs), whose length is the sum
\* of the three lengths.
C4_NoLengthCheck ==
    BackwardDone =>
        /\ last.status = "returned"
        /\ last.grads = last.gi \o last.gv \o NoneList(Len(last.op.outputs))
        /\ Len(last.grads) = Len(last.gi) + Len(last.gv) + Len(last.op.outputs)

C4_Witness ==
    /\ BackwardDone
    /\ WrongLength
    /\ Len(last.grads) # Len(last.op.inputs)
    /\ last.status = "returned"

\* C5: in every backward pass the three slices of the op's inputs are the
\* original inputs, the captured parameters and the forward outputs, the
\* number of recovered outputs equals the number of forward outputs and the
\* number of output gradients, and so neither assertion fails.
C5_SlicesAndAssertions ==
    BackwardDone =>
        /\ last.fn_inputs = last.inputs
        /\ last.fn_vars = last.train_vars
        /\ last.fn_outputs = last.fnret.vals
        /\ Len(last.fn_outputs) = Len(last.op.outputs)
        /\ Len(last.fn_outputs) = Len(last.dys)
        /\ last.status # "AssertionError"

C5_Witness ==
    /\ BackwardDone
    /\ Len(last.inputs) = 2
    /\ Len(last.train_vars) = 1
    /\ Len(last.fn_outputs) = 2
    /\ last.status = "returned"

\* C6: the names of the Defun functions registered in one graph are
\* pairwise distinct.
C6_NamesDistinct ==
    \A i, j \in DOMAIN graph : i # j => graph[i] # graph[j]

(***************************************************************************)
(* Properties of the convolution layers                                    *)
(***************************************************************************)
Done(fn) == res.fn = fn /\ res.stage = "done"

\* padding as the call gives it (conv2d_gru and conv2d_lstm default to SAME)
LeftRequested ==
    "padding" \in DOMAIN res.kwargs /\ res.kwargs["padding"] = "LEFT"

FilterMissing ==
    "filter_size" \notin DOMAIN res.kwargs \/ res.kwargs["filter_size"] = <<>>

FilterEven ==
    /\ ~FilterMissing
    /\ \E i \in 1..2 : FilterPair(res.kwargs["filter_size"])[i] % 2 = 0

\* a conv2d_v2 call with padding LEFT, a rank-4 input and odd filter sizes,
\* whose convolution produced an output
LeftConvDone ==
    /\ Done("conv2d_v2")
    /\ LeftRequested
    /\ Len(res.shape) = 4
    /\ ~FilterMissing
    /\ ~FilterEven
    /\ res.outcome.status = "ok"
    /\ res.outcome.run = "ok"

\* C7 as stated: the output height and width are the input's height and
\* width minus (filter_size - 1) * dilation.
C7_OutputIsInputMinus ==
    LeftConvDone =>
        LET f == FilterPair(res.kwargs["filter_size"])
            d == Get(res.kwargs, "dilation", 1)
        IN  /\ res.outcome.out[2] = res.shape[2] - (f[1] - 1) * d
            /\ res.outcome.out[3] = res.shape[3] - (f[2] - 1) * d

\* C7 amended: the tensor handed to the convolution has the input's height
\* plus 2 * (f0 // 2) * dilation_rate[0] and the input's width plus
\* 2 * (f1 // 2) * dilation_rate[1] (the width itself when it is 1), batch
\* and channels as they were, and padding VALID; the output height and width
\* are those padded dimensions minus (filter_size - 1) * dilation, which is
\* the input's own height and width when dilation_rate is the convolution's
\* dilation and the width was padded.
C7_OutputIsPaddedMinus ==
    LeftConvDone =>
        LET f == FilterPair(res.kwargs["filter_size"])
            r == Get(res.kwargs, "dilation_rate", <<1, 1>>)
            d == Get(res.kwargs, "dilation", 1)
            o == res.outcome
        IN  /\ o.conv_in[1] = res.shape[1]
            /\ o.conv_in[2] = res.shape[2] + 2 * (f[1] \div 2) * r[1]
            /\ o.conv_in[3] = IF res.shape[3] = 1 THEN 1
                              ELSE res.shape[3] + 2 * (f[2] \div 2) * r[2]
            /\ o.conv_in[4] = res.shape[4]
            /\ o.conv_kwargs["padding"] = "VALID"
            /\ o.out[2] = o.conv_in[2] - (f[1] - 1) * d
            /\ o.out[3] = o.conv_in[3] - (f[2] - 1) * d
            /\ (r = <<d, d>> /\ (res.shape[3] # 1 \/ f[2] = 1)) =>
                   (o.out[2] = res.shape[2] /\ o.out[3] = res.shape[3])

C7_Witness ==
    /\ LeftConvDone
    /\ res.kwargs["filter_size"] = <<3>>
    /\ Get(res.kwargs, "dilation", 1) = 2
    /\ Get(res.kwargs, "dilation_rate", <<1, 1>>) = <<2, 2>>
    /\ res.shape[2] = 3
    /\ res.shape[3] = 2
    /\ res.outcome.pad = <<4, 4>>
    /\ res.outcome.out[2] = 3
    /\ res.outcome.out[3] = 2

\* C8: a conv2d_v2 call with padding LEFT ends in an error, with no padded
\* input and no convolution called, when the input is not of rank 4, when
\* filter_size is absent or None, or when a filter dimension is even; in
\* every other case the convolution is called with the keywords of the call,
\* padding replaced by VALID and nothing else changed.
C8_LeftAbortsExactlyOnBadInput ==
    (Done("conv2d_v2") /\ LeftRequested) =>
        LET o == res.outcome
        IN  IF Len(res.shape) # 4 \/ FilterMissing \/ FilterEven
            THEN /\ o.status \in {"ValueError", "KeyError", "AssertionError"}
                 /\ ~o.conv_called
                 /\ o.conv_in = <<>>
                 /\ o.out = <<>>
            ELSE /\ o.conv_called
                 /\ DOMAIN o.conv_kwargs = DOMAIN res.kwargs
                 /\ o.conv_kwargs["padding"] = "VALID"
                 /\ \A k \in DOMAIN res.kwargs \ {"padding"} :
                        o.conv_kwargs[k] = res.kwargs[k]

C8_Witness ==
    /\ Done("conv2d_v2")
    /\ LeftRequested
    /\ Len(res.shape) = 4
    /\ ~FilterMissing
    /\ res.kwargs["filter_size"] = <<3, 2>>
    /\ res.outcome.status = "AssertionError"
    /\ ~res.outcome.conv_called

\* C9: conv2d_gru and conv2d_lstm, called with SAME padding on a rank-4
\* input, complete and return a tensor with the input's batch, height and
\* width and with n_output_channels channels.
C9_CellsPreserveShape ==
    (/\ res.stage = "done"
     /\ res.fn \in {"conv2d_gru", "conv2d_lstm"}
     /\ Len(res.shape) = 4
     /\ Get(res.kwargs, "padding", "SAME") = "SAME"
     /\ Get(res.kwargs, "filter_size", <<3>>) # <<>>) =>
        /\ res.outcome.status = "ok"
        /\ res.outcome.run = "ok"
        /\ res.outcome.out = <<res.shape[1], res.shape[2], res.shape[3],
                                res.n_output_channels>>

\* C10: when conv2d_v2 or conv2d_gru left-pads, the padding is computed from
\* the dilation d the convolution then uses: 2 * (f0 // 2) * d in height and,
\* unless the width is 1, 2 * (f1 // 2) * d in width.
C10_PaddingUsesConvDilation ==
    (/\ res.stage = "done"
     /\ res.fn \in {"conv2d_v2", "conv2d_gru"}
     /\ LeftRequested
     /\ res.outcome.conv_called) =>
        LET o == res.outcome
            f == FilterPair(o.conv_kwargs["filter_size"])
            d == Get(o.conv_kwargs, "dilation", 1)
        IN  /\ o.pad[1] = 2 * (f[1] \div 2) * d
            /\ o.pad[2] = IF res.shape[3] = 1 THEN 0
                          ELSE 2 * (f[2] \div 2) * d

====
